---- MODULE Spec2Model ----
(***************************************************************************)
(* A model of src/encryption.py: the X25519-XSalsa20-Poly1305 envelope     *)
(* encryptor / decryptor, its validators and its key helpers.              *)
(*                                                                         *)
(* The program is stateless.  The state of the model is the state of a     *)
(* caller: the key pairs it generated, the envelope its last successful    *)
(* encrypt_message returned, and the outcome of its last call.             *)
(*                                                                         *)
(* Values:                                                                 *)
(*  - a Python str used as base64 text is a record                         *)
(*      [str, data, junk, padok]: whether it is a str at all, the bytes    *)
(*      its base64 alphabet characters encode, the number of characters    *)
(*      outside the alphabet it holds, and whether its padding is right;   *)
(*  - a random byte string (key, nonce) is [len, bits]: its true length    *)
(*      and its content at a reduced width of ContentBits bits, bit 0      *)
(*      standing for the low bits of the first byte and bit ContentBits-1  *)
(*      for the most significant bit of the last byte;                     *)
(*  - a UTF-8 byte string is [len, units]: run-length encoded groups of    *)
(*      bytes;                                                             *)
(*  - an authenticated ciphertext is [len, key, nonce, pt, flip]: the      *)
(*      ideal-AEAD term for (tag || XSalsa20 stream xor pt).               *)
(***************************************************************************)
EXTENDS Integers, Sequences, FiniteSets, TLC

\* ---------------------------------------------------------------- bounds
\* Width, in bits, of the reduced content of a random byte string.
ContentBits == 4
\* How many key pairs the caller generates.
MaxKeys == 2

\* ------------------------------------------------------ program constants
VERSION == "x25519-xsalsa20-poly1305"
MAX_MESSAGE_LENGTH == 1024 * 1024
\* nacl.public.PublicKey.SIZE, nacl.public.PrivateKey.SIZE
KEY_SIZE == 32
\* nacl.public.Box.NONCE_SIZE
NONCE_SIZE == 24
\* crypto_box_MACBYTES: the Poly1305 tag box.encrypt puts before the stream
MAC_SIZE == 16

\* The exception kinds a caller can observe (class names of the source).
InvalidKeyError == "InvalidKeyError"
InvalidMessageError == "InvalidMessageError"
EncryptionError == "EncryptionError"
ErrorKinds == {InvalidKeyError, InvalidMessageError, EncryptionError}

\* ------------------------------------------------------------ byte strings
Raw(n, b) == [len |-> n, bits |-> b]
EmptyBytes == Raw(0, 0)
IsRaw(b) == "bits" \in DOMAIN b
IsSealed(b) == "flip" \in DOMAIN b

\* v with bit i inverted.
FlipBit(v, i) == IF (v \div (2 ^ i)) % 2 = 1 THEN v - 2 ^ i ELSE v + 2 ^ i

\* ------------------------------------------------------------------ codec
\* base64.b64encode(data).decode("utf-8"): canonical text, nothing else in it.
B64Text(b) == [str |-> TRUE, data |-> b, junk |-> 0, padok |-> TRUE]
\* A value that is not a str (None).
NotAStr == [str |-> FALSE, data |-> EmptyBytes, junk |-> 0, padok |-> TRUE]
EmptyStr == B64Text(EmptyBytes)
\* Python truthiness of a str: it holds at least one character.
IsEmptyStr(t) == t.str /\ t.data.len = 0 /\ t.junk = 0 /\ t.padok
\* RFC 4648 text: alphabet characters only, correctly padded.
IsBase64Text(t) == t.str /\ t.junk = 0 /\ t.padok

\* base64.b64decode(s) with its default validate=False: characters outside
\* the alphabet are discarded before the padding check.
\* Result: [ok, bytes, exc].
B64Decode(t) ==
    IF ~t.str THEN [ok |-> FALSE, bytes |-> EmptyBytes, exc |-> "TypeError"]
    ELSE IF ~t.padok
    THEN [ok |-> FALSE, bytes |-> EmptyBytes, exc |-> "binascii.Error"]
    ELSE [ok |-> TRUE, bytes |-> t.data, exc |-> "none"]

\* Encryption._encode_base64
EncodeBase64(b) == B64Text(b)
\* Encryption._decode_base64: any failure becomes EncryptionError.
DecodeBase64(t) ==
    LET d == B64Decode(t)
    IN  IF d.ok THEN [ok |-> TRUE, bytes |-> d.bytes, exc |-> <<>>]
        ELSE [ok |-> FALSE, bytes |-> EmptyBytes,
              exc |-> <<d.exc, EncryptionError>>]

\* ------------------------------------------------------------------ UTF-8
\* A str is [str, runs]: runs is a sequence of [cp, n], code point cp
\* repeated n times.
Str(runs) == [str |-> TRUE, runs |-> runs]
NotAStrMsg == [str |-> FALSE, runs |-> <<>>]

IsSurrogate(cp) == cp >= 55296 /\ cp <= 57343

\* The UTF-8 bytes of one code point.
Utf8Unit(cp) ==
    IF cp < 128 THEN <<cp>>
    ELSE IF cp < 2048 THEN <<192 + (cp \div 64), 128 + (cp % 64)>>
    ELSE IF cp < 65536
    THEN <<224 + (cp \div 4096), 128 + ((cp \div 64) % 64), 128 + (cp % 64)>>
    ELSE <<240 + (cp \div 262144), 128 + ((cp \div 4096) % 64),
           128 + ((cp \div 64) % 64), 128 + (cp % 64)>>

RECURSIVE SumLen(_)
SumLen(units) ==
    IF units = <<>> THEN 0
    ELSE (Len(Head(units).bytes) * Head(units).n) + SumLen(Tail(units))

\* msg.encode("utf-8"): [ok, bytes]; a lone surrogate raises UnicodeEncodeError.
Utf8Encode(msg) ==
    IF \E i \in 1..Len(msg.runs) : IsSurrogate(msg.runs[i].cp)
    THEN [ok |-> FALSE, bytes |-> EmptyBytes]
    ELSE LET units == [i \in 1..Len(msg.runs) |->
                         [bytes |-> Utf8Unit(msg.runs[i].cp), n |-> msg.runs[i].n]]
         IN  [ok |-> TRUE, bytes |-> [len |-> SumLen(units), units |-> units]]

IsCont(b) == b >= 128 /\ b < 192

\* The code point a group of bytes decodes to, -1 when it is not the UTF-8
\* encoding of a code point (a bad lead or continuation byte, an overlong
\* form, a surrogate, a value above U+10FFFF).
Utf8CodePoint(u) ==
    IF Len(u) = 1 /\ u[1] < 128 THEN u[1]
    ELSE IF Len(u) = 2 /\ u[1] >= 194 /\ u[1] < 224 /\ IsCont(u[2])
    THEN ((u[1] - 192) * 64) + (u[2] - 128)
    ELSE IF Len(u) = 3 /\ u[1] >= 224 /\ u[1] < 240 /\ IsCont(u[2]) /\ IsCont(u[3])
    THEN LET cp == ((u[1] - 224) * 4096) + ((u[2] - 128) * 64) + (u[3] - 128)
         IN  IF cp < 2048 \/ IsSurrogate(cp) THEN -1 ELSE cp
    ELSE IF Len(u) = 4 /\ u[1] >= 240 /\ u[1] < 245
            /\ IsCont(u[2]) /\ IsCont(u[3]) /\ IsCont(u[4])
    THEN LET cp == ((u[1] - 240) * 262144) + ((u[2] - 128) * 4096)
                   + ((u[3] - 128) * 64) + (u[4] - 128)
         IN  IF cp < 65536 \/ cp > 1114111 THEN -1 ELSE cp
    ELSE -1

\* decrypted_message.decode("utf-8"): [ok, text].
Utf8Decode(b) ==
    IF \E i \in 1..Len(b.units) : Utf8CodePoint(b.units[i].bytes) = -1
    THEN [ok |-> FALSE, text |-> Str(<<>>)]
    ELSE [ok |-> TRUE,
          text |-> Str([i \in 1..Len(b.units) |->
                          [cp |-> Utf8CodePoint(b.units[i].bytes),
                           n |-> b.units[i].n]])]

\* ----------------------------------------------------- library primitives
\* The scalar and point arithmetic of X25519 at the reduced width: a group of
\* prime order GroupOrder, the largest prime below 2^(ContentBits-1), as the
\* field prime 2^255 - 19 is below 2^255.
IsPrime(p) == p > 1 /\ \A d \in 2..(p - 1) : p % d # 0
GroupOrder ==
    CHOOSE p \in 2..(2 ^ (ContentBits - 1)) :
        /\ IsPrime(p)
        /\ \A r \in (p + 1)..(2 ^ (ContentBits - 1)) : ~IsPrime(r)

\* The scalar X25519 uses for 32 secret bytes: the low bits of the first byte
\* and the top bit of the last byte are cleared, the second highest bit set.
Clamp(b) == (((b % (2 ^ (ContentBits - 2))) \div 2) * 2) + (2 ^ (ContentBits - 2))

\* The u-coordinate X25519 reads from 32 public bytes: the most significant
\* bit of the last byte is masked off, the rest is reduced modulo the prime.
DecodePoint(b) == (b % (2 ^ (ContentBits - 1))) % GroupOrder

\* crypto_scalarmult(k, u) on a clamped scalar and a decoded point.
ScalarMult(k, u) == (k * u) % GroupOrder
\* crypto_scalarmult_base: the public half of a private key.
PublicOf(priv) == Raw(KEY_SIZE, ScalarMult(Clamp(priv.bits), 9 % GroupOrder))

\* nacl.public.PrivateKey(b) / nacl.public.PublicKey(b): 32 bytes or an error.
IsKeyBytes(b) == IsRaw(b) /\ b.len = KEY_SIZE

\* nacl.public.Box(private, public): crypto_box_beforenm.  The shared key is
\* HSalsa20 of the Diffie-Hellman result (an injection here); an all-zero
\* result (a point of low order) is refused.  [ok, key].
BoxBeforeNm(priv, pub) ==
    LET shared == ScalarMult(Clamp(priv.bits), DecodePoint(pub.bits))
    IN  [ok |-> shared # 0, key |-> shared]

\* Box.encrypt(plaintext, nonce): nonce || tag || stream xor plaintext.
BoxEncrypt(key, pt, nonce) ==
    [len |-> nonce.len + MAC_SIZE + pt.len, head |-> nonce,
     key |-> key, nonce |-> nonce.bits, pt |-> pt.units]

\* encrypted[k:] of a Box.encrypt result: the authenticated ciphertext when
\* exactly the nonce is cut off, bytes that authenticate under no key otherwise.
SliceFrom(enc, k) ==
    IF k = enc.head.len
    THEN [len |-> enc.len - k, key |-> enc.key, nonce |-> enc.nonce,
          pt |-> enc.pt, flip |-> 0]
    ELSE Raw(IF enc.len > k THEN enc.len - k ELSE 0, 0)

\* Box.decrypt(ciphertext, nonce): ValueError for a nonce that is not 24
\* bytes, CryptoError when the tag does not verify.  [ok, exc, pt].
BoxDecrypt(key, ct, nonce) ==
    IF nonce.len # NONCE_SIZE
    THEN [ok |-> FALSE, exc |-> "ValueError", pt |-> EmptyBytes]
    ELSE IF /\ IsSealed(ct)
            /\ ct.flip = 0
            /\ ct.key = key
            /\ IsRaw(nonce)
            /\ ct.nonce = nonce.bits
    THEN [ok |-> TRUE, exc |-> "none",
          pt |-> [len |-> ct.len - MAC_SIZE, units |-> ct.pt]]
    ELSE [ok |-> FALSE, exc |-> "CryptoError", pt |-> EmptyBytes]

\* -------------------------------------------------------------- envelopes
\* A dict is [dict, fields, version, nonce, ephemPublicKey, ciphertext]:
\* whether the value is a dict at all, the keys it has, and their values.
RequiredFields == {"version", "nonce", "ephemPublicKey", "ciphertext"}
EmptyDict ==
    [dict |-> TRUE, fields |-> {}, version |-> "", nonce |-> EmptyStr,
     ephemPublicKey |-> EmptyStr, ciphertext |-> EmptyStr]
\* A slip in the constructor call: nonce and ephemeral key change places.
EncryptedMessageSwapped(v, n, e, c) ==
    [dict |-> TRUE, fields |-> {"version", "nonce", "ephemPublicKey", "ciphertext"},
     version |-> v, nonce |-> e, ephemPublicKey |-> n, ciphertext |-> c]

\* vars(EncryptedMessage(version, nonce, ephemPublicKey, ciphertext))
EncryptedMessage(v, n, e, c) ==
    [dict |-> TRUE, fields |-> {"version", "nonce", "ephemPublicKey", "ciphertext"},
     version |-> v, nonce |-> n, ephemPublicKey |-> e, ciphertext |-> c]

NoText == Str(<<>>)
Last(q) == q[Len(q)]

\* -------------------------------------------------------------- validators
RECURSIVE CharCount(_)
CharCount(runs) ==
    IF runs = <<>> THEN 0 ELSE Head(runs).n + CharCount(Tail(runs))

\* A slip in the length check: len(msg), the characters, not the bytes.
ValidateMessageByChars(msg) ==
    IF ~msg.str THEN <<InvalidMessageError>>
    ELSE IF ~Utf8Encode(msg).ok THEN <<"UnicodeEncodeError">>
    ELSE IF CharCount(msg.runs) > MAX_MESSAGE_LENGTH THEN <<InvalidMessageError>>
    ELSE IF msg.runs = <<>> THEN <<InvalidMessageError>>
    ELSE <<>>

\* Encryption._validate_message: the exceptions raised, innermost first
\* (<<>> when the message passes).
ValidateMessage(msg) ==
    IF ~msg.str THEN <<InvalidMessageError>>
    ELSE LET e == Utf8Encode(msg)
         IN  IF ~e.ok THEN <<"UnicodeEncodeError">>
             ELSE IF e.bytes.len > MAX_MESSAGE_LENGTH THEN <<InvalidMessageError>>
             ELSE IF msg.runs = <<>> THEN <<InvalidMessageError>>
             ELSE <<>>

\* A slip in the key check: the decoded length is not compared.
ValidatePublicKeyNoLength(key) ==
    IF ~key.str THEN <<InvalidKeyError>>
    ELSE IF IsEmptyStr(key) THEN <<InvalidKeyError>>
    ELSE IF ~B64Decode(key).ok THEN <<B64Decode(key).exc, InvalidKeyError>>
    ELSE <<>>

\* Encryption._validate_public_key
ValidatePublicKey(key) ==
    IF ~key.str THEN <<InvalidKeyError>>
    ELSE IF IsEmptyStr(key) THEN <<InvalidKeyError>>
    ELSE LET d == B64Decode(key)
         IN  IF ~d.ok THEN <<d.exc, InvalidKeyError>>
             ELSE IF d.bytes.len # KEY_SIZE THEN <<InvalidKeyError, InvalidKeyError>>
             ELSE <<>>

\* ------------------------------------------------------------ encryption
\* A slip in the except clauses: the re-raise clause is missing.
EncryptExceptWrapAll(exc) == Append(exc, EncryptionError)

\* The except clauses of encrypt_message: InvalidKeyError and
\* InvalidMessageError pass, anything else is wrapped.
EncryptExcept(exc) ==
    IF Last(exc) \in {InvalidKeyError, InvalidMessageError} THEN exc
    ELSE Append(exc, EncryptionError)

EncryptFail(exc, trace) ==
    [kind |-> Last(EncryptExcept(exc)), exc |-> EncryptExcept(exc),
     trace |-> trace, env |-> EmptyDict]

\* A slip in the slice: the tag's length instead of the nonce's.
StripNonceAtTag(enc) == SliceFrom(enc, 16)

\* The slice encrypt_message takes of box.encrypt's result.
StripNonce(enc) == SliceFrom(enc, 24)

\* Encryption.encrypt_message; eph and nonce are what the random source
\* returns to PrivateKey.generate() and to nacl.utils.random(24).
EncryptMessage(receiver_public_key, msg, eph, nonce) ==
    LET vm == ValidateMessage(msg)
        vk == ValidatePublicKey(receiver_public_key)
    IN
    IF vm # <<>> THEN EncryptFail(vm, <<>>)
    ELSE IF vk # <<>> THEN EncryptFail(vk, <<>>)
    ELSE
    LET ephemeral_keypair == eph
        pub_key_bytes == B64Decode(receiver_public_key).bytes
        msg_bytes == Utf8Encode(msg).bytes
        box == BoxBeforeNm(ephemeral_keypair, pub_key_bytes)
        encrypted_message == StripNonce(BoxEncrypt(box.key, msg_bytes, nonce))
    IN
    IF ~IsKeyBytes(pub_key_bytes)
    THEN EncryptFail(<<"ValueError">>, <<"PrivateKey.generate">>)
    ELSE IF ~box.ok
    THEN EncryptFail(<<"CryptoError">>, <<"PrivateKey.generate", "random", "Box">>)
    ELSE [kind |-> "ok", exc |-> <<>>,
          trace |-> <<"PrivateKey.generate", "random", "Box", "box.encrypt">>,
          env |-> EncryptedMessage(VERSION,
                                   EncodeBase64(nonce),
                                   EncodeBase64(PublicOf(ephemeral_keypair)),
                                   EncodeBase64(encrypted_message))]

\* ------------------------------------------------------------ decryption
\* A slip in the except clauses: the catch-all raises InvalidMessageError.
DecryptExceptAsInvalidMessage(exc) ==
    IF Last(exc) \in {InvalidKeyError, InvalidMessageError} THEN exc
    ELSE Append(exc, InvalidMessageError)

\* The except clauses of decrypt_message.
DecryptExcept(exc) ==
    IF Last(exc) \in {InvalidKeyError, InvalidMessageError} THEN exc
    ELSE Append(exc, EncryptionError)

DecryptFail(exc, trace) ==
    [kind |-> Last(DecryptExcept(exc)), exc |-> DecryptExcept(exc),
     trace |-> trace, text |-> NoText]

\* A slip in the structure checks: the version is not compared.
ValidateStructureNoVersion(encrypted_data) ==
    IF ~encrypted_data.dict THEN <<"TypeError">>
    ELSE IF ~(RequiredFields \subseteq encrypted_data.fields)
    THEN <<InvalidMessageError>>
    ELSE <<>>

\* The structure checks decrypt_message starts with: the exceptions raised
\* (<<>> when the envelope passes).
ValidateStructure(encrypted_data) ==
    IF ~encrypted_data.dict THEN <<"TypeError">>
    ELSE IF ~(RequiredFields \subseteq encrypted_data.fields)
    THEN <<InvalidMessageError>>
    ELSE IF encrypted_data.version # VERSION THEN <<InvalidMessageError>>
    ELSE <<>>

\* A slip in the call: the stream is decrypted without checking the tag.
OpenBoxUnauthenticated(key, ciphertext, nonce) ==
    IF IsSealed(ciphertext) /\ ciphertext.key = key
    THEN [ok |-> TRUE, exc |-> "none",
          pt |-> [len |-> ciphertext.len - MAC_SIZE, units |-> ciphertext.pt]]
    ELSE BoxDecrypt(key, ciphertext, nonce)

\* box.decrypt(ciphertext, nonce) as decrypt_message calls it.
OpenBox(key, ciphertext, nonce) == BoxDecrypt(key, ciphertext, nonce)

\* Encryption.decrypt_message
DecryptMessage(private_key, encrypted_data) ==
    IF ValidateStructure(encrypted_data) # <<>>
    THEN DecryptFail(ValidateStructure(encrypted_data), <<>>)
    ELSE
    LET priv == DecodeBase64(private_key)
        t1 == <<"decode:private_key">>
    IN
    IF ~priv.ok THEN DecryptFail(priv.exc \o <<InvalidKeyError>>, t1)
    ELSE IF ~IsKeyBytes(priv.bytes)
    THEN DecryptFail(<<"ValueError", InvalidKeyError>>, t1)
    ELSE
    LET nonce == DecodeBase64(encrypted_data.nonce)
        ephem == DecodeBase64(encrypted_data.ephemPublicKey)
        ciphertext == DecodeBase64(encrypted_data.ciphertext)
        t2 == t1 \o <<"decode:nonce">>
        t3 == t2 \o <<"decode:ephemPublicKey">>
        t4 == t3 \o <<"decode:ciphertext">>
    IN
    IF ~nonce.ok THEN DecryptFail(nonce.exc \o <<InvalidMessageError>>, t2)
    ELSE IF ~ephem.ok THEN DecryptFail(ephem.exc \o <<InvalidMessageError>>, t3)
    ELSE IF ~IsKeyBytes(ephem.bytes)
    THEN DecryptFail(<<"ValueError", InvalidMessageError>>, t3)
    ELSE IF ~ciphertext.ok
    THEN DecryptFail(ciphertext.exc \o <<InvalidMessageError>>, t4)
    ELSE
    LET box == BoxBeforeNm(priv.bytes, ephem.bytes)
        opened == OpenBox(box.key, ciphertext.bytes, nonce.bytes)
        decoded == Utf8Decode(opened.pt)
    IN
    IF ~box.ok THEN DecryptFail(<<"CryptoError">>, t4 \o <<"Box">>)
    ELSE IF ~opened.ok THEN DecryptFail(<<opened.exc>>, t4 \o <<"Box", "box.decrypt">>)
    ELSE IF ~decoded.ok
    THEN DecryptFail(<<"UnicodeDecodeError", EncryptionError>>,
                     t4 \o <<"Box", "box.decrypt", "decode">>)
    ELSE [kind |-> "ok", exc |-> <<>>,
          trace |-> t4 \o <<"Box", "box.decrypt", "decode">>,
          text |-> decoded.text]

\* ---------------------------------------------------------------- keys
\* Encryption.generate_key_pair; seed is what the random source returns.
GenerateKeyPairFrom(seed) ==
    LET private_key == Raw(KEY_SIZE, seed)
        public_key == PublicOf(private_key)
    IN  [privateKey |-> B64Text(private_key), publicKey |-> B64Text(public_key)]

\* The body of is_valid_key's try block: [exc, value].
IsValidKeyTry(key, key_type) ==
    LET d == B64Decode(key)
    IN  IF ~d.ok THEN [exc |-> d.exc, value |-> FALSE]
        ELSE IF key_type = "public"
        THEN [exc |-> "none", value |-> d.bytes.len = KEY_SIZE]
        ELSE IF ~IsRaw(d.bytes) THEN [exc |-> "TypeError", value |-> FALSE]
        ELSE IF d.bytes.len # KEY_SIZE THEN [exc |-> "ValueError", value |-> FALSE]
        ELSE [exc |-> "none", value |-> TRUE]

\* Encryption.is_valid_key, with its except clause: [raised, value].
IsValidKey(key, key_type) ==
    LET r == IsValidKeyTry(key, key_type)
    IN  IF r.exc # "none" THEN [raised |-> FALSE, value |-> FALSE]
        ELSE [raised |-> FALSE, value |-> r.value]

\* ------------------------------------------------------------- the inputs
\* What the random source returns to generate_key_pair: two private keys of
\* one clamped scalar that differ in a low bit, one that differs from them in
\* the top bit only, and one of another scalar.
PrivSeeds == {0, 1, 2, 2 ^ (ContentBits - 1)}
\* What it returns to encrypt_message, for the ephemeral key and the nonce.
EphSeeds == {1, 2}
NonceSeeds == {0, 5}

\* "hello"
Hello == Str(<<[cp |-> 104, n |-> 1], [cp |-> 101, n |-> 1],
               [cp |-> 108, n |-> 2], [cp |-> 111, n |-> 1]>>)
\* 1,048,576 and 1,048,577 times "a"
AsciiMax == Str(<<[cp |-> 97, n |-> MAX_MESSAGE_LENGTH]>>)
AsciiOver == Str(<<[cp |-> 97, n |-> MAX_MESSAGE_LENGTH + 1]>>)
\* 349,525 euro signs (3 bytes each) and an "a": 349,526 characters, 1,048,576 bytes
EuroMax == Str(<<[cp |-> 8364, n |-> 349525], [cp |-> 97, n |-> 1]>>)
\* 349,526 euro signs: 349,526 characters, 1,048,578 bytes
EuroOver == Str(<<[cp |-> 8364, n |-> 349526]>>)
\* e-acute (2 bytes) and U+1F600 (4 bytes)
Mixed == Str(<<[cp |-> 233, n |-> 1], [cp |-> 128512, n |-> 1]>>)
\* a lone surrogate: a str that has no UTF-8 encoding
LoneSurrogate == Str(<<[cp |-> 55296, n |-> 1]>>)
Messages ==
    {Hello, AsciiMax, AsciiOver, EuroMax, EuroOver, Mixed, LoneSurrogate,
     Str(<<>>), NotAStrMsg}

WithJunk(t) == [t EXCEPT !.junk = 1]
BadPadding(t) == [t EXCEPT !.padok = FALSE]
\* Key texts no generate_key_pair returned.
MalformedKeys ==
    {EmptyStr, NotAStr, WithJunk(EmptyStr), BadPadding(B64Text(Raw(KEY_SIZE, 1))),
     B64Text(Raw(KEY_SIZE - 1, 1)), B64Text(Raw(KEY_SIZE + 1, 1))}
\* A 32-byte public key of low order (the all-zero point).
LowOrderKey == B64Text(Raw(KEY_SIZE, 0))

VARIABLES
    keys,   \* the key pairs generate_key_pair returned
    env,    \* the envelope the last successful encryption returned
    sent,   \* what that envelope was made from
    res     \* the last call and its outcome
vars == <<keys, env, sent, res>>

NoTamper == [how |-> "none", field |-> "", bit |-> 0]
NoRes ==
    [op |-> "none", kind |-> "none", exc |-> <<>>, trace |-> <<>>,
     text |-> NoText, value |-> FALSE, raised |-> FALSE,
     key |-> EmptyStr, key_type |-> "", msg |-> NoText,
     given |-> EmptyDict, tamper |-> NoTamper]
NoSent == [made |-> FALSE, peer |-> FALSE, receiver |-> EmptyStr, msg |-> NoText]

Init ==
    /\ keys = {}
    /\ env = EmptyDict
    /\ sent = NoSent
    /\ res = NoRes

PublicKeys == {k.publicKey : k \in keys}
PrivateKeys == {k.privateKey : k \in keys}

\* generate_key_pair()
GenerateKeyPair ==
    /\ res.op = "none"
    /\ Cardinality(keys) < MaxKeys
    /\ \E seed \in PrivSeeds :
         keys' = keys \cup {GenerateKeyPairFrom(seed)}
    /\ res' = [NoRes EXCEPT !.op = "generate_key_pair", !.kind = "ok",
                            !.trace = <<"PrivateKey.generate">>]
    /\ UNCHANGED <<env, sent>>

\* encrypt_message(receiver_public_key, msg)
Encrypt ==
    /\ res.op = "none"
    /\ \E receiver \in PublicKeys \cup {WithJunk(k) : k \in PublicKeys}
                    \cup MalformedKeys \cup {LowOrderKey},
       msg \in Messages, eph \in EphSeeds, nonce \in NonceSeeds :
        LET r == EncryptMessage(receiver, msg, Raw(KEY_SIZE, eph),
                                Raw(NONCE_SIZE, nonce))
        IN  /\ res' = [NoRes EXCEPT !.op = "encrypt_message", !.kind = r.kind,
                                    !.exc = r.exc, !.trace = r.trace,
                                    !.key = receiver, !.msg = msg]
            /\ IF r.kind = "ok"
               THEN /\ env' = r.env
                    /\ sent' = [made |-> TRUE, peer |-> FALSE,
                                receiver |-> receiver, msg |-> msg]
               ELSE UNCHANGED <<env, sent>>
            /\ UNCHANGED keys

\* ---------------------------------------------- what decrypt_message is given
BinaryFields == {"nonce", "ephemPublicKey", "ciphertext"}
OtherVersions == <<"", "x25519-xsalsa20-poly1305-v2">>
\* The decoded length the data model requires of a field (the least one, for
\* the ciphertext).
RequiredLen(f) ==
    IF f = "nonce" THEN NONCE_SIZE
    ELSE IF f = "ephemPublicKey" THEN KEY_SIZE
    ELSE MAC_SIZE

\* The ways the caller changes the envelope before it decrypts it: one bit of
\* a decoded field inverted, another version (alone or with a malformed
\* field), a key removed, a field replaced by malformed text.
Tampers ==
    {NoTamper, [how |-> "notdict", field |-> "", bit |-> 0]}
    \cup {[how |-> "flip", field |-> f, bit |-> b] :
             f \in BinaryFields, b \in 0..(ContentBits - 1)}
    \cup {[how |-> "version", field |-> f, bit |-> b] :
             f \in {"version"} \cup BinaryFields, b \in 1..2}
    \cup {[how |-> "drop", field |-> f, bit |-> 0] : f \in RequiredFields}
    \cup {[how |-> h, field |-> f, bit |-> 0] :
             h \in {"empty", "nonstr", "badpad", "junk", "short", "long"},
             f \in BinaryFields}

\* The bytes b with the single bit i inverted (for a ciphertext, position i
\* of its tag or body).
FlipBytes(b, i) ==
    IF IsSealed(b) THEN [b EXCEPT !.flip = i + 1]
    ELSE [b EXCEPT !.bits = FlipBit(b.bits, i)]

NewText(old, t) ==
    CASE t.how = "flip" -> B64Text(FlipBytes(old.data, t.bit))
      [] t.how = "empty" -> EmptyStr
      [] t.how = "nonstr" -> NotAStr
      [] t.how = "badpad" -> BadPadding(old)
      [] t.how = "junk" -> WithJunk(old)
      [] t.how = "short" -> B64Text(Raw(RequiredLen(t.field) - 1, 1))
      [] t.how = "long" -> B64Text(Raw(RequiredLen(t.field) + 1, 1))

Tampered(e, t) ==
    CASE t.how = "none" -> e
      [] t.how = "notdict" -> [e EXCEPT !.dict = FALSE]
      [] t.how = "version" /\ t.field = "version" ->
            [e EXCEPT !.version = OtherVersions[t.bit]]
      [] t.how = "version" /\ t.field = "nonce" ->
            [e EXCEPT !.version = OtherVersions[t.bit], !.nonce = BadPadding(@)]
      [] t.how = "version" /\ t.field = "ephemPublicKey" ->
            [e EXCEPT !.version = OtherVersions[t.bit], !.ephemPublicKey = NotAStr]
      [] t.how = "version" /\ t.field = "ciphertext" ->
            [e EXCEPT !.version = OtherVersions[t.bit], !.ciphertext = EmptyStr]
      [] t.how = "drop" -> [e EXCEPT !.fields = @ \ {t.field}]
      [] t.field = "nonce" -> [e EXCEPT !.nonce = NewText(@, t)]
      [] t.field = "ephemPublicKey" -> [e EXCEPT !.ephemPublicKey = NewText(@, t)]
      [] t.field = "ciphertext" -> [e EXCEPT !.ciphertext = NewText(@, t)]

MalformedPrivateKeys ==
    {NotAStr, BadPadding(B64Text(Raw(KEY_SIZE, 1))), B64Text(Raw(KEY_SIZE - 1, 1))}

\* decrypt_message(private_key, encrypted_data) on the last envelope, as it
\* is or changed on the way.
Decrypt ==
    /\ res.op = "none"
    /\ sent.made
    /\ \E private_key \in PrivateKeys \cup MalformedPrivateKeys, t \in Tampers :
        LET given == Tampered(env, t)
            r == DecryptMessage(private_key, given)
        IN  res' = [NoRes EXCEPT !.op = "decrypt_message", !.kind = r.kind,
                                 !.exc = r.exc, !.trace = r.trace,
                                 !.text = r.text, !.key = private_key,
                                 !.given = given, !.tamper = t]
    /\ UNCHANGED <<keys, env, sent>>

\* A peer that follows the scheme seals bytes that are not UTF-8 to one of
\* the caller's public keys.
NotUtf8 == [len |-> 1, units |-> <<[bytes |-> <<255>>, n |-> 1]>>]
PeerEncrypt ==
    /\ res.op = "none"
    /\ \E receiver \in PublicKeys :
        LET eph == Raw(KEY_SIZE, 1)
            nonce == Raw(NONCE_SIZE, 5)
            box == BoxBeforeNm(eph, B64Decode(receiver).bytes)
        IN  /\ env' = EncryptedMessage(VERSION, EncodeBase64(nonce),
                          EncodeBase64(PublicOf(eph)),
                          EncodeBase64(StripNonce(BoxEncrypt(box.key, NotUtf8, nonce))))
            /\ sent' = [made |-> TRUE, peer |-> TRUE,
                        receiver |-> receiver, msg |-> NoText]
    /\ res' = [NoRes EXCEPT !.op = "peer"]
    /\ UNCHANGED keys

\* is_valid_key(key, key_type)
CheckKey ==
    /\ res.op = "none"
    /\ \E key \in PublicKeys \cup PrivateKeys
                  \cup {WithJunk(k) : k \in PublicKeys \cup PrivateKeys}
                  \cup MalformedKeys,
          key_type \in {"public", "private"} :
        LET r == IsValidKey(key, key_type)
        IN  res' = [NoRes EXCEPT !.op = "is_valid_key", !.kind = "ok",
                                 !.value = r.value, !.raised = r.raised,
                                 !.key = key, !.key_type = key_type]
    /\ UNCHANGED <<keys, env, sent>>

\* The caller has looked at the outcome of its call and goes on.
Return ==
    /\ res.op # "none"
    /\ res' = NoRes
    /\ UNCHANGED <<keys, env, sent>>

Next ==
    \/ Return
    \/ GenerateKeyPair
    \/ Encrypt
    \/ Decrypt
    \/ PeerEncrypt
    \/ CheckKey

Spec == Init /\ [][Next]_vars

\* ================================================================ claims
\* The private keys of the pairs whose public key the last envelope was
\* encrypted to.
RecipientPrivateKeys == {k.privateKey : k \in {x \in keys : x.publicKey = sent.receiver}}
\* The last call decrypted the envelope encrypt_message returned, changed as
\* res.tamper says, with the recipient's private key.
DecryptedByRecipient ==
    /\ res.op = "decrypt_message"
    /\ sent.made /\ ~sent.peer
    /\ res.key \in RecipientPrivateKeys

\* C1 (round trip): decrypting the unchanged envelope of
\* encrypt_message(K.publicKey, M) with K.privateKey returns exactly M, for
\* every generated pair K, every valid message M, every ephemeral key and nonce.
C1_RoundTrip ==
    (DecryptedByRecipient /\ res.tamper = NoTamper)
        => (res.kind = "ok" /\ res.text = sent.msg)
\* A message of exactly 1 MiB with multi-byte characters came back.
C1_Witness ==
    /\ DecryptedByRecipient /\ res.tamper = NoTamper
    /\ res.kind = "ok" /\ res.text = EuroMax /\ sent.msg = EuroMax

\* C2 as claimed: with any single bit of the decoded nonce, ephemeral public
\* key or ciphertext inverted, decryption with the recipient's key fails.
C2_EveryBitFlipFails ==
    (DecryptedByRecipient /\ res.tamper.how = "flip") => res.kind # "ok"
\* C2 (tamper detection), amended: inverting any single bit of the decoded
\* nonce or ciphertext, or any bit of the ephemeral public key but the most
\* significant bit of its last byte, makes decryption fail; inverting that
\* bit, which X25519 masks off, returns the original message; an altered
\* plaintext is never returned.
C2_TamperDetection ==
    (DecryptedByRecipient /\ res.tamper.how = "flip") =>
        IF res.tamper.field = "ephemPublicKey" /\ res.tamper.bit = ContentBits - 1
        THEN res.kind = "ok" /\ res.text = sent.msg
        ELSE res.kind \in ErrorKinds /\ res.text = NoText
\* A bit of the ciphertext was inverted and the tag check refused it.
C2_Witness ==
    /\ DecryptedByRecipient
    /\ res.tamper.how = "flip" /\ res.tamper.field = "ciphertext"
    /\ res.exc = <<"CryptoError", EncryptionError>>

\* The last call decrypted the unchanged envelope, made for the pair k1,
\* with the private key of the pair k2.
DecryptedAcross(k1, k2) ==
    /\ res.op = "decrypt_message" /\ res.tamper = NoTamper
    /\ sent.made /\ ~sent.peer
    /\ k1.publicKey = sent.receiver
    /\ k2.privateKey = res.key

\* C3 as claimed: decryption with the private key of any other generated
\* pair fails with the catch-all EncryptionError.
C3_EveryOtherPairFails ==
    \A k1 \in keys, k2 \in keys :
        (k1 # k2 /\ DecryptedAcross(k1, k2)) => res.kind = EncryptionError
\* C3 (cross-key failure), amended: decryption with the private key of a
\* generated pair whose public key differs from the recipient's fails with
\* the catch-all EncryptionError and returns no plaintext.
C3_CrossKeyFailure ==
    \A k1 \in keys, k2 \in keys :
        (k1.publicKey # k2.publicKey /\ DecryptedAcross(k1, k2))
            => (res.kind = EncryptionError /\ res.text = NoText)
C3_Witness ==
    \E k1 \in keys, k2 \in keys :
        /\ k1.publicKey # k2.publicKey /\ DecryptedAcross(k1, k2)
        /\ res.exc = <<"CryptoError", EncryptionError>>

\* C4 (version gate): an envelope with all four fields and a version other
\* than "x25519-xsalsa20-poly1305" is refused with InvalidMessageError before
\* the private key or any field is decoded and before any Diffie-Hellman or
\* AEAD operation, whatever the private key and the other fields are.
C4_VersionGate ==
    (/\ res.op = "decrypt_message"
     /\ res.given.dict
     /\ {"version", "nonce", "ephemPublicKey", "ciphertext"} \subseteq res.given.fields
     /\ res.given.version # "x25519-xsalsa20-poly1305")
        => (res.kind = InvalidMessageError /\ res.trace = <<>>)
\* Another version, a malformed private key and a malformed nonce at once.
C4_Witness ==
    /\ res.op = "decrypt_message"
    /\ res.tamper.how = "version" /\ res.tamper.field = "nonce"
    /\ res.key = NotAStr
    /\ res.kind = InvalidMessageError /\ res.trace = <<>>

\* The field f of the envelope e is missing, empty, undecodable, or of a
\* decoded length the data model forbids.
MalformedField(e, f) ==
    \/ f \notin e.fields
    \/ IsEmptyStr(e[f])
    \/ ~B64Decode(e[f]).ok
    \/ /\ f = "nonce"
       /\ B64Decode(e[f]).bytes.len # 24
    \/ /\ f = "ephemPublicKey"
       /\ B64Decode(e[f]).bytes.len # 32
    \/ /\ f = "ciphertext"
       /\ B64Decode(e[f]).bytes.len < 16

\* C5 (malformed envelope classification): with a well-formed private key
\* and the supported version, a nonce, ephemeral public key or ciphertext
\* that is missing, empty, undecodable or of a forbidden decoded length makes
\* decrypt_message fail with InvalidMessageError.
C5_MalformedIsInvalidMessage ==
    (/\ res.op = "decrypt_message"
     /\ res.key \in PrivateKeys
     /\ res.given.dict
     /\ "version" \in res.given.fields
     /\ res.given.version = "x25519-xsalsa20-poly1305"
     /\ \E f \in {"nonce", "ephemPublicKey", "ciphertext"} :
            MalformedField(res.given, f))
        => res.kind = InvalidMessageError

\* The position of the first InvalidKeyError or InvalidMessageError in a
\* chain of exceptions, 0 when it holds none.
FirstInputError(exc) ==
    IF \E i \in DOMAIN exc : exc[i] \in {"InvalidKeyError", "InvalidMessageError"}
    THEN CHOOSE i \in DOMAIN exc :
            /\ exc[i] \in {"InvalidKeyError", "InvalidMessageError"}
            /\ \A j \in 1..(i - 1) : exc[j] \notin {"InvalidKeyError", "InvalidMessageError"}
    ELSE 0

\* C6 (error taxonomy): a failure of encrypt_message or decrypt_message
\* reaches the caller as one of InvalidKeyError, InvalidMessageError,
\* EncryptionError; an InvalidKeyError or InvalidMessageError raised inside
\* the call reaches the caller with its kind, every other failure as
\* EncryptionError.
C6_ErrorTaxonomy ==
    res.op \in {"encrypt_message", "decrypt_message"} =>
        /\ res.kind \in {"ok", "InvalidKeyError", "InvalidMessageError", "EncryptionError"}
        /\ (res.kind = "ok") = (res.exc = <<>>)
        /\ res.exc # <<>> =>
              IF FirstInputError(res.exc) # 0
              THEN res.kind = res.exc[FirstInputError(res.exc)]
              ELSE res.kind = "EncryptionError"
\* An invalid receiver key reached the caller of encrypt_message as
\* InvalidKeyError.
C6_Witness ==
    /\ res.op = "encrypt_message"
    /\ res.exc = <<"binascii.Error", "InvalidKeyError">>
    /\ res.kind = "InvalidKeyError"

\* What a successful encrypt_message returns, but for the names of its keys.
EnvelopeShape ==
    /\ env.dict
    /\ env.version = "x25519-xsalsa20-poly1305"
    /\ IsBase64Text(env.nonce) /\ B64Decode(env.nonce).bytes.len = 24
    /\ IsBase64Text(env.ephemPublicKey) /\ B64Decode(env.ephemPublicKey).bytes.len = 32
    /\ IsBase64Text(env.ciphertext)
    /\ B64Decode(env.ciphertext).bytes.len = Utf8Encode(res.msg).bytes.len + 16

C8_KeyValidation ==
    res.op = "is_valid_key" =>
        /\ ~res.raised
        /\ (res.key \in PublicKeys /\ res.key_type = "public") => res.value
        /\ (res.key \in PrivateKeys /\ res.key_type = "private") => res.value
        /\ (B64Decode(res.key).ok /\ B64Decode(res.key).bytes.len # 32) => ~res.value
        /\ ~IsBase64Text(res.key) => ~res.value

\* C9 (message size boundary): with the public key of a generated pair,
\* encrypt_message accepts every message of 1 to 1,048,576 UTF-8 bytes and
\* refuses with InvalidMessageError the empty message and every message of
\* 1,048,577 bytes or more, whatever its number of characters.
C9_SizeBoundary ==
    (/\ res.op = "encrypt_message"
     /\ res.key \in PublicKeys
     /\ res.msg.str /\ Utf8Encode(res.msg).ok) =>
        LET n == Utf8Encode(res.msg).bytes.len
        IN  /\ (n >= 1 /\ n <= 1048576) => res.kind = "ok"
            /\ (n = 0 \/ n >= 1048577) => res.kind = InvalidMessageError
\* 349,526 characters in 1,048,578 bytes were refused.
C9_Witness ==
    /\ res.op = "encrypt_message" /\ res.key \in PublicKeys
    /\ res.msg = EuroOver
    /\ res.kind = InvalidMessageError

\* How often the call drew from the random source.
Draws == Cardinality({i \in DOMAIN res.trace : res.trace[i] \in {"PrivateKey.generate", "random"}})
InvalidMessageInput(m) ==
    \/ ~m.str
    \/ /\ Utf8Encode(m).ok
       /\ \/ Utf8Encode(m).bytes.len = 0
          \/ Utf8Encode(m).bytes.len > 1048576
ValidMessageInput(m) ==
    /\ m.str /\ Utf8Encode(m).ok
    /\ Utf8Encode(m).bytes.len >= 1 /\ Utf8Encode(m).bytes.len <= 1048576
InvalidKeyInput(k) ==
    \/ ~k.str
    \/ IsEmptyStr(k)
    \/ ~B64Decode(k).ok
    \/ B64Decode(k).bytes.len # 32

\* C10 (validation before key material): an invalid message makes
\* encrypt_message fail with InvalidMessageError, a valid message with an
\* invalid receiver key with InvalidKeyError, in both cases without a draw
\* from the random source; a successful call draws exactly twice.
C10_ValidateFirst ==
    res.op = "encrypt_message" =>
        /\ InvalidMessageInput(res.msg) =>
              (res.kind = InvalidMessageError /\ Draws = 0)
        /\ (ValidMessageInput(res.msg) /\ InvalidKeyInput(res.key)) =>
              (res.kind = InvalidKeyError /\ Draws = 0)
        /\ res.kind = "ok" => Draws = 2
\* A key of 31 bytes was refused before anything was drawn.
C10_Witness ==
    /\ res.op = "encrypt_message"
    /\ res.msg = Hello /\ res.key = B64Text(Raw(31, 1))
    /\ res.kind = InvalidKeyError /\ res.trace = <<>>

====
